---- MODULE Spec2Model ----
(***************************************************************************)
(* fire-dl: bulk parallel download and single-level link scan.             *)
(*                                                                         *)
(* The model follows src/src/download.rs, src/src/scan.rs, src/src/args.rs *)
(* and src/src/utils.rs.  A run is one call of download() or scan(); the   *)
(* job bodies are interleaved at their await points by the single task     *)
(* that drives buffer_unordered(parallel).collect().                       *)
(*                                                                         *)
(* Strings that the code builds with format!() are kept as the sequence of *)
(* their '.'-separated tokens: "index.html.2" is <<"index","html","2">>,   *)
(* ".x.part" is <<"","x","part">>, the empty string is <<"">>.  Joining    *)
(* with '.' is then concatenation of token sequences, and two names are    *)
(* the same string exactly when their token sequences are equal.           *)
(***************************************************************************)
EXTENDS Integers, Sequences, FiniteSets, TLC

(***************************************************************************)
(* Bounds of the model.                                                    *)
(***************************************************************************)
MaxUrls == 3
MaxParallel == 2
NChunks == 2

VARIABLES
    mode,            \* "download" | "scan": the subcommand (args.rs Command)
    parallel,        \* args.parallel
    redownload,      \* args.redownload_existing
    outputState,     \* "dir" | "missing" | "file": what args.output points at
    urls,            \* args.urls.collect(): the input URLs not yet iterated
    filters,         \* args.filters.filter_url: sequence of patterns
    pc,              \* position of download()/scan()
    jobs,            \* download: the jobs vec; scan: the Jobs sent on job_tx
    considered,      \* download loop: the URLs that passed the urls_seen check,
                     \* each with the file name it resolved to
    nextJob,         \* jobs already pulled from the job stream by the executor
    streamDone,      \* Fuse::is_done() of the job stream
    inProgress,      \* buffer_unordered's in_progress_queue (set of job indices)
    jpc,             \* per job: position of Job::run
    started,         \* per job: how many times its body was started
    fs,              \* output directory: file name -> inode
    inodes,          \* inode -> content (sequence of chunks)
    fd,              \* per job: inode of the open temp file (0: none)
    off,             \* per job: write offset of its file handle
    sent,            \* output channel (output_tx -> output_rx), unread part
    printed,         \* URLs printed by the drain loop
    ret,             \* the last call of a function on its own, with its result
    shell            \* the invocation: which run this is, and for a second
                     \* run the output directory it started from

args == <<mode, parallel, redownload, outputState, urls, filters>>

vars == <<args, ret, shell, pc, jobs, considered, nextJob, streamDone, inProgress,
          jpc, started, fs, inodes, fd, off, sent, printed>>

(***************************************************************************)
(* URLs.  A Url is a record [dir, seg]: seg is the final path segment as a *)
(* token sequence, dir stands for everything before it.  Equality of Urls  *)
(* is equality of their serialisation (url crate), here of the record.     *)
(***************************************************************************)
Url(d, s) == [dir |-> d, seg |-> s]

\* Url::to_string(): scheme and host, the directory, then the final segment.
UrlToString(u) == <<"http://h", u.dir>> \o u.seg

\* download.rs file_name_from_url: the last path segment.
file_name_from_url(u) == u.seg

\* Decimal rendering of the suffix counter by format!("{suffix}").
Dec(n) ==
    CASE n = 0 -> "0" [] n = 1 -> "1" [] n = 2 -> "2" [] n = 3 -> "3"
      [] n = 4 -> "4" [] n = 5 -> "5" [] n = 6 -> "6" [] n = 7 -> "7"
      [] n = 8 -> "8" [] n = 9 -> "9"

\* format!("{file_name}.{suffix}")
Suffixed(file_name, suffix) == file_name \o <<Dec(suffix)>>

\* format!(".{}.part", self.file_name)
TempName(file_name) == <<"">> \o file_name \o <<"part">>

(***************************************************************************)
(* utils.rs dedup_urls: a filter over the input that keeps a URL when the  *)
(* HashSet does not hold it yet, and records it.                           *)
(***************************************************************************)
\* dedup_urls that looks a URL up but never records it.
RECURSIVE DedupNeverRecords(_, _)
DedupNeverRecords(input, dedup) ==
    IF input = <<>> THEN <<>>
    ELSE LET url == Head(input) IN
         IF url \notin dedup
         THEN <<url>> \o DedupNeverRecords(Tail(input), dedup)
         ELSE DedupNeverRecords(Tail(input), dedup)

RECURSIVE DedupFrom(_, _)
DedupFrom(input, dedup) ==
    IF input = <<>> THEN <<>>
    ELSE LET url == Head(input) IN
         IF url \notin dedup
         THEN <<url>> \o DedupFrom(Tail(input), dedup \cup {url})
         ELSE DedupFrom(Tail(input), dedup)

dedup_urls(input) == DedupFrom(input, {})

(***************************************************************************)
(* download.rs, the job creation loop (lines 51-103).  The loop state is   *)
(* the record [jobs, id, output_files, urls_seen, considered, panicked];   *)
(* output_files is the HashMap file name -> next suffix.                   *)
(***************************************************************************)
NoFileName == <<>>   \* file_name_from_url(...) = None

LoopInit ==
    [jobs |-> <<>>, id |-> 0, output_files |-> <<>>, urls_seen |-> {},
     considered |-> <<>>, panicked |-> FALSE]

\* path.exists() for path = output.join(file_name): joining the empty name
\* gives the output directory itself, which exists.
PathExists(disk, file_name) == file_name = <<"">> \/ file_name \in DOMAIN disk

\* The suffixing rule, lines 71-77: the name given to this URL.
ResolveName(output_files, file_name) ==
    IF file_name \in DOMAIN output_files
    THEN Suffixed(file_name, output_files[file_name])
    ELSE file_name

\* The counter map with the first suffix set to 1 instead of 2.
BumpSuffixFromOne(output_files, file_name) ==
    IF file_name \in DOMAIN output_files
    THEN [output_files EXCEPT ![file_name] = @ + 1]
    ELSE [n \in DOMAIN output_files \cup {file_name} |->
             IF n = file_name THEN 1 ELSE output_files[n]]

\* Lines 71-77: the counter map after this URL.
BumpSuffix(output_files, file_name) ==
    IF file_name \in DOMAIN output_files
    THEN [output_files EXCEPT ![file_name] = @ + 1]
    ELSE [n \in DOMAIN output_files \cup {file_name} |->
             IF n = file_name THEN 2 ELSE output_files[n]]

\* Lines 61-66: has a job already been considered for this URL?
AlreadySeen(urls_seen, url) == url \in urls_seen

\* Lines 81-90: skip the URL because its destination exists?
SkipExisting(disk, redl, file_name) == PathExists(disk, file_name) /\ ~redl

\* One iteration of the loop, lines 59-103.
LoopBody(st, url, disk, redl) ==
    IF AlreadySeen(st.urls_seen, url) THEN st
    ELSE
    LET seen1 == st.urls_seen \cup {url}
        base  == file_name_from_url(url)
    IN  IF base = NoFileName
        THEN [st EXCEPT !.urls_seen = seen1, !.panicked = TRUE]
        ELSE
        LET file_name == ResolveName(st.output_files, base)
            files1    == BumpSuffix(st.output_files, base)
            skip      == SkipExisting(disk, redl, file_name)
            job       == [id |-> st.id, url |-> url, file_name |-> file_name,
                          path |-> file_name,
                          unlink_existing |-> PathExists(disk, file_name)]
            seenRec   == [url |-> url, base |-> base, file_name |-> file_name,
                          job |-> ~skip]
        IN  [st EXCEPT !.urls_seen = seen1,
                       !.output_files = files1,
                       !.considered = Append(@, seenRec),
                       !.jobs = IF skip THEN @ ELSE Append(@, job),
                       !.id = IF skip THEN @ ELSE @ + 1]

RECURSIVE LoopFrom(_, _, _, _)
LoopFrom(st, input, disk, redl) ==
    IF input = <<>> \/ st.panicked THEN st
    ELSE LoopFrom(LoopBody(st, Head(input), disk, redl), Tail(input), disk, redl)

CreateJobs(input, disk, redl) == LoopFrom(LoopInit, input, disk, redl)

(***************************************************************************)
(* scan.rs Filters::is_match.  A pattern is a literal token; Regex::       *)
(* is_match is an unanchored search, so it matches a string that holds the *)
(* token anywhere.                                                         *)
(***************************************************************************)
RegexIsMatch(regex, str) == \E k \in 1..Len(str) : str[k] = regex

is_match(filter_url, url) ==
    LET url_str == UrlToString(url)
    IN  \E i \in 1..Len(filter_url) : RegexIsMatch(filter_url[i], url_str)

(***************************************************************************)
(* scan.rs scan_html.  A page is a sequence of anchors; an anchor has no   *)
(* href, an href that does not resolve, a relative or an absolute one.     *)
(***************************************************************************)
Join(base_url, a) ==
    IF a.kind = "rel" THEN <<Url(base_url.dir, a.seg)>>
    ELSE IF a.kind = "abs" THEN <<a.url>>
    ELSE <<>>

RECURSIVE scan_html(_, _)
scan_html(html, base_url) ==
    IF html = <<>> THEN <<>>
    ELSE Join(base_url, Head(html)) \o scan_html(Tail(html), base_url)

\* scan.rs Job::run lines 138-142: the discovered URLs sent to output_tx.
RECURSIVE Forwarded(_, _)
Forwarded(found, filter_url) ==
    IF found = <<>> THEN <<>>
    ELSE (IF is_match(filter_url, Head(found)) THEN <<Head(found)>> ELSE <<>>)
         \o Forwarded(Tail(found), filter_url)

(***************************************************************************)
(* The output directory.  fs maps a file name to its inode, inodes maps an *)
(* inode to the chunks it holds.  A chunk is <<job id, index>>; a file     *)
(* that was there before the run holds the one chunk OldChunk.             *)
(***************************************************************************)
OldChunk == <<-1, 1>>
Body(id) == [k \in 1..NChunks |-> <<id, k>>]

FreshInode(ino) == Len(ino) + 1

\* write of one chunk at offset o (offsets count chunks): data beyond the
\* end of a truncated file leaves a hole.
Hole == <<-2, 0>>
WriteAt(content, o, chunk) ==
    [k \in 1..(IF o + 1 > Len(content) THEN o + 1 ELSE Len(content)) |->
        IF k = o + 1 THEN chunk
        ELSE IF k <= Len(content) THEN content[k] ELSE Hole]

Link(disk, name, i) ==
    [n \in DOMAIN disk \cup {name} |-> IF n = name THEN i ELSE disk[n]]
Unlink(disk, name) == [n \in DOMAIN disk \ {name} |-> disk[n]]

(***************************************************************************)
(* Inputs of a run.                                                        *)
(***************************************************************************)
SeqsUpTo(S, n) == UNION {[1..k -> S] : k \in 0..n}

X  == <<"x">>
X2 == <<"x", "2">>

\* Three URLs that end in x and one that ends in x.2.
NameUrls     == {Url("a", X), Url("b", X), Url("c", X), Url("d", X2)}
DownloadUrls == {Url("a", X), Url("b", X), Url("d", X2)}
ScanUrls     == {Url("a", X), Url("b", X)}
\* --filter-url given not at all, once, or twice.
FilterSets   == {<<>>, <<"a">>, <<"x", "2">>, <<"b", "2">>}
Anchors      == {[kind |-> "nohref"], [kind |-> "bad"],
                 [kind |-> "rel", seg |-> X2],
                 [kind |-> "abs", url |-> Url("a", X)]}
ContentTypes == {"none", "text/html", "text/html; charset=utf-8",
                 "application/json", "opaque"}
\* Pages: no anchor, one anchor of each kind, and two links.
Htmls == {<<>>} \cup {<<a>> : a \in Anchors}
           \cup {<<[kind |-> "rel", seg |-> X2], [kind |-> "abs", url |-> Url("a", X)]>>}

\* The output directory before the run: empty, or holding a file named x.
Disks == {<<>>, [n \in {X} |-> 1]}
OldInodes(disk) == [i \in 1..Cardinality(DOMAIN disk) |-> <<OldChunk>>]

NoCall == [fn |-> "none"]

\* The program is invoked once.
Once == [n |-> 1, again |-> FALSE]

InitRun(modes, urlSet, disks, outputs) ==
    /\ mode \in modes
    /\ parallel \in 0..MaxParallel
    /\ pc = "start"
    /\ jobs = <<>> /\ considered = <<>>
    /\ nextJob = 0 /\ streamDone = FALSE /\ inProgress = {}
    /\ jpc = <<>> /\ started = <<>> /\ fd = <<>> /\ off = <<>>
    /\ sent = <<>> /\ printed = <<>>
    /\ ret = NoCall
    /\ shell = Once
    /\ \/ /\ mode = "download"
          /\ urls \in SeqsUpTo(urlSet, MaxUrls)
          /\ redownload \in BOOLEAN
          /\ outputState \in outputs
          /\ fs \in disks
          /\ filters = <<>>
       \/ /\ mode = "scan"
          /\ urls \in SeqsUpTo(ScanUrls, MaxUrls)
          /\ redownload = FALSE
          /\ outputState = "dir"
          /\ fs = <<>>
          /\ filters \in FilterSets
    /\ inodes = OldInodes(fs)

OutputStates == {"dir", "missing", "file"}

Init == InitRun({"download", "scan"}, DownloadUrls, Disks, OutputStates)

\* The job creation stage on its own, over more file names.
InitCreate == InitRun({"download", "scan"}, NameUrls, Disks, OutputStates)

\* Calls of the functions on their own.
InitLib ==
    /\ mode = "lib" /\ pc = "lib"
    /\ parallel = 1 /\ outputState = "dir"
    /\ urls \in SeqsUpTo(NameUrls, MaxUrls)
    /\ filters \in FilterSets
    /\ redownload \in BOOLEAN
    /\ fs \in Disks
    /\ inodes = OldInodes(fs)
    /\ jobs = <<>> /\ considered = <<>>
    /\ nextJob = 0 /\ streamDone = FALSE /\ inProgress = {}
    /\ jpc = <<>> /\ started = <<>> /\ fd = <<>> /\ off = <<>>
    /\ sent = <<>> /\ printed = <<>>
    /\ ret = NoCall
    /\ shell = Once

(***************************************************************************)
(* download(), lines 39-107: everything before the executor.               *)
(***************************************************************************)
PerJob(n, v) == [j \in 1..n |-> v]

\* Lines 40-46: bail!() on a bad output path.
DownloadBail ==
    /\ pc = "start" /\ mode = "download"
    /\ outputState # "dir"
    /\ pc' = "error"
    /\ UNCHANGED <<args, ret, shell, jobs,
                   considered, nextJob, streamDone, inProgress, jpc, started,
                   fs, inodes, fd, off, sent, printed>>

\* Lines 49 and 57: collect() or the client builder returns Err.
DownloadSetupFail ==
    /\ pc = "start" /\ mode = "download"
    /\ outputState = "dir"
    /\ pc' = "error"
    /\ UNCHANGED <<args, ret, shell, jobs,
                   considered, nextJob, streamDone, inProgress, jpc, started,
                   fs, inodes, fd, off, sent, printed>>

\* Lines 51-107: the job creation loop.
DownloadCreateJobs ==
    /\ pc = "start" /\ mode = "download"
    /\ outputState = "dir"
    /\ LET st == CreateJobs(urls, fs, redownload) IN
       /\ considered' = st.considered
       /\ jobs' = st.jobs
       /\ pc' = IF st.panicked THEN "panic" ELSE "exec"
       /\ jpc' = PerJob(Len(st.jobs), "queued")
       /\ started' = PerJob(Len(st.jobs), 0)
       /\ fd' = PerJob(Len(st.jobs), 0)
       /\ off' = PerJob(Len(st.jobs), 0)
    /\ urls' = <<>>        \* urls.into_iter(): the loop consumes the vector
    /\ UNCHANGED <<mode, parallel, redownload, outputState, filters, ret,
                   shell,
                   nextJob, streamDone, inProgress, fs, inodes, sent, printed>>

(***************************************************************************)
(* scan(), lines 48-70: channels, one Job per collected URL, then job_tx   *)
(* and the Scan handle are dropped.                                        *)
(***************************************************************************)
ScanJobs(input) == [i \in 1..Len(input) |-> [id |-> i - 1, url |-> input[i]]]

ScanSetupFail ==
    /\ pc = "start" /\ mode = "scan"
    /\ pc' = "error"
    /\ UNCHANGED <<args, ret, shell, jobs,
                   considered, nextJob, streamDone, inProgress, jpc, started,
                   fs, inodes, fd, off, sent, printed>>

ScanCreateJobs ==
    /\ pc = "start" /\ mode = "scan"
    /\ jobs' = ScanJobs(urls)
    /\ pc' = "exec"
    /\ jpc' = PerJob(Len(urls), "queued")
    /\ started' = PerJob(Len(urls), 0)
    /\ fd' = PerJob(Len(urls), 0)
    /\ off' = PerJob(Len(urls), 0)
    /\ urls' = <<>>            \* the collected vector is consumed by the loop
    /\ UNCHANGED <<mode, parallel, redownload, outputState, filters, ret,
                   shell,
                   considered, nextJob, streamDone, inProgress, fs, inodes,
                   sent, printed>>

(***************************************************************************)
(* The executor: stream.map(..).buffer_unordered(parallel).collect(),      *)
(* download.rs lines 109-118 and scan.rs lines 72-84.  Each poll of the    *)
(* buffered stream first fills the in-progress queue from the job stream   *)
(* while it holds fewer than `parallel` futures, then polls the futures in *)
(* progress, and ends when the job stream is done and none is in progress. *)
(***************************************************************************)
Min(a, b) == IF a < b THEN a ELSE b

Finished(p) == p \in {"ok", "failed"}

\* The loop condition written len <= max: one future too many.
RoomOffByOne == IF Cardinality(inProgress) <= parallel
                THEN parallel - Cardinality(inProgress) + 1 ELSE 0

\* Free places in the in-progress queue: the loop condition len < max.
Room == IF Cardinality(inProgress) < parallel
        THEN parallel - Cardinality(inProgress) ELSE 0

Queued == Len(jobs) - nextJob

\* The fill loop would pull a job or see the end of the job stream.
FillEnabled == Room > 0 /\ (Queued > 0 \/ ~streamDone)

ExecFill ==
    /\ pc = "exec"
    /\ FillEnabled
    /\ LET take == Min(Room, Queued)
           new  == (nextJob + 1)..(nextJob + take)
       IN  /\ nextJob' = nextJob + take
           /\ inProgress' = inProgress \cup new
           /\ jpc' = [j \in DOMAIN jpc |-> IF j \in new THEN "new" ELSE jpc[j]]
           /\ streamDone' = (streamDone \/ Room > take)
    /\ UNCHANGED <<args, ret, shell, pc,
                   jobs, considered, started, fs, inodes, fd, off, sent, printed>>

\* The buffered stream ending as soon as the job stream is done, with
\* futures still in progress.
ExecCanEndEarly == ~FillEnabled /\ streamDone

\* The buffered stream ending at the first failed job, as a try_collect of
\* job results would.
ExecCanEndOnFailure ==
    /\ ~FillEnabled
    /\ \/ inProgress = {} /\ streamDone
       \/ \E j \in DOMAIN jpc : jpc[j] = "failed"

\* The buffered stream returns None: nothing in progress and the job stream
\* is done.  collect() completes; download() returns Ok, scan() goes on to
\* drain output_rx.
ExecCanEnd == ~FillEnabled /\ inProgress = {} /\ streamDone

ExecEnd ==
    /\ pc = "exec"
    /\ ExecCanEnd
    /\ pc' = IF mode = "download" THEN "ok" ELSE "drain"
    /\ UNCHANGED <<args, ret, shell, jobs,
                   considered, nextJob, streamDone, inProgress, jpc, started,
                   fs, inodes, fd, off, sent, printed>>

\* A future in progress may be polled once the fill loop has run.
\* The in-progress futures polled before the fill loop has run.
CanPollBeforeFill(j) == pc = "exec" /\ j \in inProgress

CanPoll(j) == pc = "exec" /\ ~FillEnabled /\ j \in inProgress

\* A job body ends: its future leaves the in-progress queue.
Leave(j, outcome) ==
    /\ jpc' = [jpc EXCEPT ![j] = outcome]
    /\ inProgress' = inProgress \ {j}

\* First poll of a job's future: the request is issued.
JobStart(j) ==
    /\ CanPoll(j)
    /\ jpc[j] = "new"
    /\ jpc' = [jpc EXCEPT ![j] = "send"]
    /\ started' = [started EXCEPT ![j] = @ + 1]
    /\ UNCHANGED <<args, ret, shell, pc,
                   jobs, considered, nextJob, streamDone, inProgress, fs,
                   inodes, fd, off, sent, printed>>

(***************************************************************************)
(* download.rs Job::run and Job::download, lines 185-232.                  *)
(***************************************************************************)
\* Any awaited step returns Err: send (187-193), File::create (216),
\* chunk/write_all/flush (219-224), remove_file (227), rename (229).
DlFail(j) ==
    /\ CanPoll(j) /\ mode = "download"
    /\ jpc[j] \in {"send", "create", "write", "unlink", "rename"}
    /\ Leave(j, "failed")
    /\ UNCHANGED <<args, ret, shell, pc,
                   jobs, considered, nextJob, streamDone, started, fs, inodes,
                   fd, off, sent, printed>>

\* Line 187: the response arrives.
DlSendOk(j) ==
    /\ CanPoll(j) /\ mode = "download"
    /\ jpc[j] = "send"
    /\ jpc' = [jpc EXCEPT ![j] = "create"]
    /\ UNCHANGED <<args, ret, shell, pc,
                   jobs, considered, nextJob, streamDone, inProgress, started,
                   fs, inodes, fd, off, sent, printed>>

\* Lines 210-217: File::create(&temp_path) creates the file or truncates it.
DlCreate(j) ==
    /\ CanPoll(j) /\ mode = "download"
    /\ jpc[j] = "create"
    /\ LET temp_path == TempName(jobs[j].file_name) IN
       IF temp_path \in DOMAIN fs
       THEN /\ inodes' = [inodes EXCEPT ![fs[temp_path]] = <<>>]
            /\ fd' = [fd EXCEPT ![j] = fs[temp_path]]
            /\ fs' = fs
       ELSE /\ inodes' = Append(inodes, <<>>)
            /\ fd' = [fd EXCEPT ![j] = FreshInode(inodes)]
            /\ fs' = Link(fs, temp_path, FreshInode(inodes))
    /\ off' = [off EXCEPT ![j] = 0]
    /\ jpc' = [jpc EXCEPT ![j] = "write"]
    /\ UNCHANGED <<args, ret, shell, pc,
                   jobs, considered, nextJob, streamDone, inProgress, started,
                   sent, printed>>

\* Lines 219-222: the next chunk of the body is written through the handle.
DlChunk(j) ==
    /\ CanPoll(j) /\ mode = "download"
    /\ jpc[j] = "write"
    /\ off[j] < NChunks
    /\ inodes' = [inodes EXCEPT ![fd[j]] =
                      WriteAt(@, off[j], Body(jobs[j].id)[off[j] + 1])]
    /\ off' = [off EXCEPT ![j] = @ + 1]
    /\ UNCHANGED <<args, ret, shell, pc,
                   jobs, considered, nextJob, streamDone, inProgress, jpc,
                   started, fs, fd, sent, printed>>

\* The step after the flush: remove_file when unlink_existing, else rename.
AfterFlush(job) == IF job.unlink_existing THEN "unlink" ELSE "rename"

\* Lines 219 and 224: the body has ended and the writer is flushed.
DlFlush(j) ==
    /\ CanPoll(j) /\ mode = "download"
    /\ jpc[j] = "write"
    /\ off[j] = NChunks
    /\ jpc' = [jpc EXCEPT ![j] = AfterFlush(jobs[j])]
    /\ UNCHANGED <<args, ret, shell, pc,
                   jobs, considered, nextJob, streamDone, inProgress, started,
                   fs, inodes, fd, off, sent, printed>>

\* Lines 226-228: remove_file(&self.path); a missing file or the directory
\* itself makes it fail (DlFail).
DlUnlink(j) ==
    /\ CanPoll(j) /\ mode = "download"
    /\ jpc[j] = "unlink"
    /\ jobs[j].path \in DOMAIN fs
    /\ fs' = Unlink(fs, jobs[j].path)
    /\ jpc' = [jpc EXCEPT ![j] = "rename"]
    /\ UNCHANGED <<args, ret, shell, pc,
                   jobs, considered, nextJob, streamDone, inProgress, started,
                   inodes, fd, off, sent, printed>>

\* Line 229: rename(temp_path, &self.path) replaces the destination; a
\* missing temp file or a directory as destination makes it fail (DlFail).
DlRename(j) ==
    /\ CanPoll(j) /\ mode = "download"
    /\ jpc[j] = "rename"
    /\ LET temp_path == TempName(jobs[j].file_name) IN
       /\ temp_path \in DOMAIN fs
       /\ jobs[j].path # <<"">>
       /\ fs' = Link(Unlink(fs, temp_path), jobs[j].path, fs[temp_path])
    /\ Leave(j, "ok")
    /\ UNCHANGED <<args, ret, shell, pc,
                   jobs, considered, nextJob, streamDone, started, inodes, fd,
                   off, sent, printed>>

(***************************************************************************)
(* scan.rs Job::run, lines 119-145.                                        *)
(***************************************************************************)
\* Line 120 or 128: send() or text() returns Err.
ScFail(j) ==
    /\ CanPoll(j) /\ mode = "scan"
    /\ jpc[j] \in {"send", "text"}
    /\ Leave(j, "failed")
    /\ UNCHANGED <<args, ret, shell, pc,
                   jobs, considered, nextJob, streamDone, started, fs, inodes,
                   fd, off, sent, printed>>

\* The content type compared by its media type only, parameters ignored.
OnContentTypeIgnoringParameters(ct) ==
    IF ct \in {"text/html", "text/html; charset=utf-8"} THEN "text"
    ELSE IF ct = "opaque" THEN "failed"
    ELSE "ok"

\* What lines 122-136 do with the content-type header of the response.
OnContentType(ct) ==
    IF ct = "text/html" THEN "text"
    ELSE IF ct = "opaque" THEN "failed"     \* to_str() fails, `?` returns Err
    ELSE "ok"                               \* vec![]: nothing to forward

\* Lines 120-136: the response arrives with content type ct.
ScHead(j, ct) ==
    /\ CanPoll(j) /\ mode = "scan"
    /\ jpc[j] = "send"
    /\ IF OnContentType(ct) = "text"
       THEN jpc' = [jpc EXCEPT ![j] = "text"] /\ inProgress' = inProgress
       ELSE Leave(j, OnContentType(ct))
    /\ UNCHANGED <<args, ret, shell, pc,
                   jobs, considered, nextJob, streamDone, started, fs, inodes,
                   fd, off, sent, printed>>

\* Lines 128-144: the body arrives, its links are extracted, filtered and
\* sent to output_tx.
ScText(j, html) ==
    /\ CanPoll(j) /\ mode = "scan"
    /\ jpc[j] = "text"
    /\ sent' = sent \o Forwarded(scan_html(html, jobs[j].url), filters)
    /\ Leave(j, "ok")
    /\ UNCHANGED <<args, ret, shell, pc,
                   jobs, considered, nextJob, streamDone, started, fs, inodes,
                   fd, off, printed>>

(***************************************************************************)
(* scan.rs lines 86-90: the drain loop.  recv() returns None when the      *)
(* channel is empty and every sender (one per unfinished Job) is dropped.  *)
(***************************************************************************)
\* The senders with the original Scan handle (sender 0) never dropped.
LiveSendersWithScanHandle == {0} \cup {j \in DOMAIN jpc : ~Finished(jpc[j])}

LiveSenders == {j \in DOMAIN jpc : ~Finished(jpc[j])}

\* The drain loop running beside the executor instead of after it.
DrainPrintWhileExecuting ==
    /\ pc \in {"exec", "drain"}
    /\ sent # <<>>
    /\ printed' = Append(printed, Head(sent))
    /\ sent' = Tail(sent)
    /\ UNCHANGED <<args, ret, shell, pc,
                   jobs, considered, nextJob, streamDone, inProgress, jpc,
                   started, fs, inodes, fd, off>>

DrainPrint ==
    /\ pc = "drain"
    /\ sent # <<>>
    /\ printed' = Append(printed, Head(sent))
    /\ sent' = Tail(sent)
    /\ UNCHANGED <<args, ret, shell, pc,
                   jobs, considered, nextJob, streamDone, inProgress, jpc,
                   started, fs, inodes, fd, off>>

\* recv() reporting the end as soon as every sender is dropped, with sent
\* URLs still in the channel.
DrainEndDroppingBuffered ==
    /\ pc = "drain"
    /\ LiveSenders = {}
    /\ pc' = "ok"
    /\ UNCHANGED <<args, ret, shell, jobs,
                   considered, nextJob, streamDone, inProgress, jpc, started,
                   fs, inodes, fd, off, sent, printed>>

DrainEnd ==
    /\ pc = "drain"
    /\ sent = <<>>
    /\ LiveSenders = {}
    /\ pc' = "ok"
    /\ UNCHANGED <<args, ret, shell, jobs,
                   considered, nextJob, streamDone, inProgress, jpc, started,
                   fs, inodes, fd, off, sent, printed>>

Next ==
    \/ DownloadBail
    \/ DownloadSetupFail
    \/ DownloadCreateJobs
    \/ ScanSetupFail
    \/ ScanCreateJobs
    \/ ExecFill
    \/ ExecEnd
    \/ \E j \in DOMAIN jpc : JobStart(j)
    \/ \E j \in DOMAIN jpc : DlFail(j)
    \/ \E j \in DOMAIN jpc : DlSendOk(j)
    \/ \E j \in DOMAIN jpc : DlCreate(j)
    \/ \E j \in DOMAIN jpc : DlChunk(j)
    \/ \E j \in DOMAIN jpc : DlFlush(j)
    \/ \E j \in DOMAIN jpc : DlUnlink(j)
    \/ \E j \in DOMAIN jpc : DlRename(j)
    \/ \E j \in DOMAIN jpc : ScFail(j)
    \/ \E j \in DOMAIN jpc, ct \in ContentTypes : ScHead(j, ct)
    \/ \E j \in DOMAIN jpc, html \in Htmls : ScText(j, html)
    \/ DrainPrint
    \/ DrainEnd

Spec == Init /\ [][Next]_vars

(***************************************************************************)
(* A run under fair scheduling: the runtime polls the task whenever it is  *)
(* woken, and every request and file operation of a started job body       *)
(* completes (with or without an error), so a step that can be taken is    *)
(* eventually taken.                                                       *)
(***************************************************************************)
\* Runs over the URLs a/x and b/x: downloads with --redownload-existing
\* into a directory that holds x, and scans with the one filter "a".
InitFair ==
    /\ InitRun({"download", "scan"}, ScanUrls, Disks \ {<<>>}, OutputStates)
    /\ mode = "download" => redownload
    /\ mode = "scan" => filters = <<"a">>

SpecFair == InitFair /\ [][Next]_vars /\ WF_vars(Next)

(***************************************************************************)
(* The job creation stage of both modes, without the executor.             *)
(***************************************************************************)
NextCreate ==
    \/ DownloadBail
    \/ DownloadSetupFail
    \/ DownloadCreateJobs
    \/ ScanSetupFail
    \/ ScanCreateJobs

SpecCreate == InitCreate /\ [][NextCreate]_vars

(***************************************************************************)
(* The functions called on their own.                                      *)
(***************************************************************************)
Returned(r) ==
    /\ pc = "lib"
    /\ ret = NoCall
    /\ ret' = r
    /\ UNCHANGED <<args, shell, pc, jobs, considered, nextJob, streamDone,
                   inProgress, jpc, started, fs, inodes, fd, off, sent, printed>>

CallDedupUrls == Returned([fn |-> "dedup_urls", out |-> dedup_urls(urls)])

CallCreateJobs ==
    Returned([fn |-> "download_loop", out |-> CreateJobs(urls, fs, redownload)])

CallIsMatch(url) ==
    Returned([fn |-> "is_match", url |-> url, out |-> is_match(filters, url)])

\* The responses a scan job may get: the request fails, or a response with
\* a content type and a body arrives, or reading an HTML body fails.
Responses ==
    {[sendOk |-> FALSE, ct |-> "none", textOk |-> TRUE, html |-> <<>>],
     [sendOk |-> TRUE, ct |-> "text/html", textOk |-> FALSE, html |-> <<>>]}
    \cup {[sendOk |-> TRUE, ct |-> ct, textOk |-> TRUE, html |-> html] :
             ct \in ContentTypes, html \in Htmls}

\* scan.rs Job::run, lines 119-145, from the response to the result and the
\* URLs sent to output_tx (the steps ScFail, ScHead, ScText in one).
ScanJobRun(url, resp, filter_url) ==
    IF ~resp.sendOk THEN [res |-> "failed", urls |-> <<>>]
    ELSE IF OnContentType(resp.ct) # "text"
    THEN [res |-> OnContentType(resp.ct), urls |-> <<>>]
    ELSE IF ~resp.textOk THEN [res |-> "failed", urls |-> <<>>]
    ELSE [res |-> "ok",
          urls |-> Forwarded(scan_html(resp.html, url), filter_url)]

CallScanJob(url, resp) ==
    Returned([fn |-> "scan_job", url |-> url, resp |-> resp,
              out |-> ScanJobRun(url, resp, filters)])

NextLib ==
    \/ CallDedupUrls
    \/ CallCreateJobs
    \/ \E url \in NameUrls : CallIsMatch(url)
    \/ \E url \in ScanUrls, resp \in Responses : CallScanJob(url, resp)

SpecLib == InitLib /\ [][NextLib]_vars


(***************************************************************************)
(* The program invoked twice on the same output directory (main.rs): once  *)
(* the first download run has returned Ok the same command line is run     *)
(* again, with the default (non-redownload) setting.                       *)
(***************************************************************************)
\* A URL whose final segment is the temp name of x.
XPart == <<"", "x", "part">>
TwiceUrls == {Url("a", X), Url("b", XPart)}

InitTwice ==
    /\ mode = "download"
    /\ parallel \in 0..MaxParallel
    /\ pc = "start"
    /\ jobs = <<>> /\ considered = <<>>
    /\ nextJob = 0 /\ streamDone = FALSE /\ inProgress = {}
    /\ jpc = <<>> /\ started = <<>> /\ fd = <<>> /\ off = <<>>
    /\ sent = <<>> /\ printed = <<>>
    /\ ret = NoCall
    /\ urls \in SeqsUpTo(TwiceUrls, MaxUrls)
    /\ redownload \in BOOLEAN
    /\ outputState \in OutputStates
    /\ fs \in Disks
    /\ filters = <<>>
    /\ inodes = OldInodes(fs)
    /\ shell = [n |-> 1, again |-> TRUE, urls |-> urls]

\* main.rs lines 13-23, entered a second time: a fresh process with the
\* same URLs on the output directory as the first run left it.
RunAgain ==
    /\ pc = "ok" /\ mode = "download"
    /\ shell.again
    /\ shell' = [n |-> 2, again |-> FALSE, disk |-> fs, inodes |-> inodes]
    /\ urls' = shell.urls
    /\ redownload' = FALSE
    /\ pc' = "start"
    /\ jobs' = <<>> /\ considered' = <<>>
    /\ nextJob' = 0 /\ streamDone' = FALSE /\ inProgress' = {}
    /\ jpc' = <<>> /\ started' = <<>> /\ fd' = <<>> /\ off' = <<>>
    /\ UNCHANGED <<mode, parallel, outputState, filters, ret, fs, inodes,
                   sent, printed>>

NextTwice ==
    \/ DownloadBail
    \/ DownloadSetupFail
    \/ DownloadCreateJobs
    \/ ExecFill
    \/ ExecEnd
    \/ \E j \in DOMAIN jpc : JobStart(j)
    \/ \E j \in DOMAIN jpc : DlFail(j)
    \/ \E j \in DOMAIN jpc : DlSendOk(j)
    \/ \E j \in DOMAIN jpc : DlCreate(j)
    \/ \E j \in DOMAIN jpc : DlChunk(j)
    \/ \E j \in DOMAIN jpc : DlFlush(j)
    \/ \E j \in DOMAIN jpc : DlUnlink(j)
    \/ \E j \in DOMAIN jpc : DlRename(j)
    \/ RunAgain

SpecTwice == InitTwice /\ [][NextTwice]_vars

(***************************************************************************)
(* The job creation stage on URLs without a usable file name: a URL that   *)
(* has no path segments (mailto:...), one whose final segment is empty     *)
(* (http://h/c/), and one whose final segment is the temp name of x.       *)
(***************************************************************************)
Empty == <<"">>
OddUrls == {Url("a", X), Url("b", XPart), Url("c", Empty),
            Url("mailto", NoFileName)}

InitOdd == InitRun({"download", "scan"}, OddUrls, Disks, OutputStates)

SpecOdd == InitOdd /\ [][NextCreate]_vars

(***************************************************************************)
(* Properties.                                                             *)
(***************************************************************************)
JobIdx == DOMAIN jpc

\* Job bodies that have been started and have not finished.
Active == {j \in JobIdx : jpc[j] \notin {"queued", "new", "ok", "failed"}}

\* download() has returned Ok, or scan() is past its executor.
ExecReturned == pc \in {"drain", "ok"}

\* C1: in both modes, for every concurrency limit K >= 1, at most K job
\* bodies are started and not yet finished: every such body is one of the at
\* most K futures in progress.
C1_AtMostParallelActive ==
    parallel >= 1 =>
        /\ Cardinality(Active) <= parallel
        /\ Active \subseteq inProgress
        /\ Cardinality(inProgress) <= parallel

\* C1 witness: the limit is reached while a job is still queued.
C1_Witness ==
    /\ parallel = 2 /\ Cardinality(Active) = 2
    /\ \E j \in JobIdx : jpc[j] = "queued"

\* C2: a run with parallel = 0 ends with an error before any job is handed
\* to the executor.
C2_ZeroParallelRejected ==
    (parallel = 0 /\ pc # "start") => pc = "error"

\* C3: once the executor has returned, the job stream has ended and every
\* created job has finished; none is queued, admitted or active.
C3_ReturnsOnlyWhenAllFinished ==
    ExecReturned =>
        /\ streamDone /\ nextJob = Len(jobs) /\ inProgress = {}
        /\ \A j \in JobIdx : Finished(jpc[j])

\* C3 witness: the executor has returned after three jobs.
C3_Witness ==
    /\ ExecReturned /\ Len(jobs) = 3 /\ parallel = 2
    /\ \A j \in JobIdx : Finished(jpc[j])

\* C4: a failed job cancels nothing: no job body is started twice, a failure
\* never turns the run into an error, and when the executor has returned
\* every created job was started exactly once and has finished.
C4_FailureIsolated ==
    /\ \A j \in JobIdx : started[j] <= 1
    /\ (\E j \in JobIdx : jpc[j] = "failed") => pc \in {"exec", "drain", "ok"}
    /\ ExecReturned => \A j \in JobIdx : started[j] = 1 /\ Finished(jpc[j])

\* C4 witness: the first job failed, and the run went on to complete the
\* other two and returned Ok.
C4_Witness ==
    /\ pc = "ok" /\ Len(jobs) = 3
    /\ jpc[1] = "failed" /\ jpc[2] = "ok" /\ jpc[3] = "ok"
    /\ \A j \in JobIdx : started[j] = 1

\* C5: in either mode no two created jobs have the same URL.
C5_NoTwoJobsWithSameUrl ==
    \A i, j \in 1..Len(jobs) : jobs[i].url = jobs[j].url => i = j

\* The indices of the first occurrences in a sequence, and the sequence of
\* its first occurrences in input order.
FirstIdx(input) ==
    {i \in 1..Len(input) : \A k \in 1..(i - 1) : input[k] # input[i]}

IsFirstOccurrences(r, input) ==
    /\ Len(r) = Cardinality(FirstIdx(input))
    /\ \A n \in 1..Len(r) :
          \E i \in FirstIdx(input) :
              /\ Cardinality({k \in FirstIdx(input) : k <= i}) = n
              /\ r[n] = input[i]

ConsideredUrls(st) == [n \in 1..Len(st.considered) |-> st.considered[n].url]

\* C6: deduplication keeps the first occurrence of each distinct URL, drops
\* the later ones and keeps the input order, in dedup_urls and in the
\* urls_seen loop of download.
C6_KeepsFirstOccurrences ==
    /\ ret.fn = "dedup_urls" => IsFirstOccurrences(ret.out, urls)
    /\ ret.fn = "download_loop" =>
           IsFirstOccurrences(ConsideredUrls(ret.out), urls)

\* C6 witness: both functions were given an input that repeats its first
\* URL after another one, and returned the two distinct URLs.
C6_Witness ==
    /\ Len(urls) = 3 /\ urls[1] = urls[3] /\ urls[1] # urls[2]
    /\ \/ ret.fn = "dedup_urls" /\ ret.out = <<urls[1], urls[2]>>
       \/ ret.fn = "download_loop"
          /\ ConsideredUrls(ret.out) = <<urls[1], urls[2]>>

\* C7: in a download run no two created jobs have the same destination path.
C7_NoTwoJobsWithSamePath ==
    mode = "download" =>
        \A i, j \in 1..Len(jobs) : jobs[i].path = jobs[j].path => i = j

\* The name the N-th of the entries with one basename is due.
NthName(base, n) == IF n = 1 THEN base ELSE Suffixed(base, n)

\* How many of the first i entries of a sequence of URLs end in the final
\* segment of the i-th.
Rank(us, i) ==
    Cardinality({k \in 1..i :
                    file_name_from_url(us[k]) = file_name_from_url(us[i])})

JobUrls == [i \in 1..Len(jobs) |-> jobs[i].url]

SeenUrls == [i \in 1..Len(considered) |-> considered[i].url]

C9_IsMatchIffEmptyOrAny ==
    ret.fn = "is_match" =>
        (ret.out <=>
            \/ Len(filters) = 0
            \/ \E i \in 1..Len(filters) :
                   RegexIsMatch(filters[i], UrlToString(ret.url)))

\* A file content that is a started but incomplete body of job id.
IsPartialBody(content, id) ==
    /\ 1 <= Len(content) /\ Len(content) < NChunks
    /\ \A k \in 1..Len(content) : content[k] = Body(id)[k]

\* C10: the destination path of a download job never holds a partial body
\* of that job's download.
C10_NoPartialBodyAtDestination ==
    mode = "download" =>
        \A j \in 1..Len(jobs) :
            jobs[j].path \in DOMAIN fs =>
                ~IsPartialBody(inodes[fs[jobs[j].path]], jobs[j].id)

\* The content found under a name in a directory, <<>> when absent.
FileAt(disk, ino, name) ==
    IF name \in DOMAIN disk THEN <<ino[disk[name]]>> ELSE <<>>

\* The URLs of the second run that were skipped because their destination
\* was present when the run started.
SkippedInSecondRun ==
    {i \in 1..Len(considered) : shell.n = 2 /\ ~considered[i].job}

\* C11: a second run with default settings creates no job for a URL whose
\* destination file exists, and the content of every such file stays as it
\* was when the second run started.
C11_SecondRunLeavesExistingFiles ==
    (mode = "download" /\ shell.n = 2 /\ pc \in {"exec", "ok"}) =>
        /\ \A j \in 1..Len(jobs) : jobs[j].path \notin DOMAIN shell.disk
        /\ \A i \in SkippedInSecondRun :
              /\ considered[i].file_name \in DOMAIN shell.disk
              /\ FileAt(fs, inodes, considered[i].file_name)
                    = FileAt(shell.disk, shell.inodes, considered[i].file_name)

\* C12: in scan mode nothing is printed while a job is pending or active:
\* once a URL has been printed the executor has returned, the job stream
\* has ended and every job has finished.
C12_PrintsOnlyAfterExecutor ==
    (mode = "scan" /\ printed # <<>>) =>
        /\ pc \in {"drain", "ok"}
        /\ streamDone /\ nextJob = Len(jobs) /\ inProgress = {}
        /\ \A j \in JobIdx : Finished(jpc[j])

\* C12 witness: the drain loop has printed a URL of a run of two jobs and
\* has more to print.
C12_Witness ==
    /\ mode = "scan" /\ pc = "drain" /\ Len(jobs) = 2
    /\ printed # <<>> /\ sent # <<>>

HasFileName(u) == u.seg # NoFileName /\ u.seg # Empty

\* C14: a URL without a derivable file name is rejected on its own: the job
\* creation loop completes, and no job is created for such a URL.
C14_NamelessUrlRejectedAlone ==
    (mode = "download" /\ pc \notin {"start", "error"}) =>
        /\ pc # "panic"
        /\ \A j \in 1..Len(jobs) : HasFileName(jobs[j].url)

\* C15: with a concurrency limit >= 1 and job bodies that finish, a run
\* whose jobs have been created eventually returns: download() returns Ok,
\* scan() ends its executor phase and then its drain loop.
C15_RunTerminates ==
    (parallel >= 1 /\ pc = "exec") ~> (pc = "ok")

\* C15 witness: a scan run of three jobs has ended after printing a URL.
C15_Witness ==
    /\ mode = "scan" /\ pc = "ok" /\ Len(jobs) = 3 /\ parallel >= 1
    /\ printed # <<>> /\ sent = <<>>

\* C16: while the executor runs with a free place and a queued job, the
\* only step taken admits the next queued job; no admitted job is polled,
\* and so no completion is consumed, before that.
C16_WorkConserving ==
    [][(pc = "exec" /\ Cardinality(inProgress) < parallel /\ Queued > 0) =>
          /\ nextJob' > nextJob
          /\ (nextJob + 1) \in inProgress'
          /\ \A j \in JobIdx : jpc[j] # "queued" => jpc'[j] = jpc[j]]_vars

\* C16 witness: a job beyond the first K has been admitted into a place a
\* finished job freed, while another job is still queued.
C16_Witness ==
    /\ pc = "exec" /\ parallel >= 1 /\ Queued > 0
    /\ \E i \in JobIdx : Finished(jpc[i])
    /\ \E j \in inProgress : j > parallel /\ jpc[j] = "new"

\* C17: with a concurrency limit of 1 at most one job body is active, and
\* jobs start and finish in creation order: a job that has been admitted or
\* started has every earlier job finished behind it.
C17_SequentialWhenOne ==
    parallel = 1 =>
        /\ Cardinality(Active) <= 1
        /\ Cardinality(inProgress) <= 1
        /\ \A i, j \in JobIdx :
              (i < j /\ jpc[j] # "queued") => Finished(jpc[i])

\* C17 witness: with the limit 1 the second of three jobs is active, the
\* first has finished and the third is still queued.
C17_Witness ==
    /\ parallel = 1 /\ Len(jobs) = 3
    /\ Finished(jpc[1]) /\ 2 \in Active /\ jpc[3] = "queued"

\* Everything sent to the output channel so far, in the order of the sends.
AllSent == printed \o sent

\* s is t with more appended.
IsPrefix(s, t) == Len(s) <= Len(t) /\ SubSeq(t, 1, Len(s)) = s

\* The filtered links a scan job may send when its body arrives.
MaySend(j) ==
    {Forwarded(scan_html(html, jobs[j].url), filters) : html \in Htmls}

\* C18: in scan mode the printed lines are always the first of the URLs
\* sent so far, each once and in the order sent; only a scan job whose body
\* arrived adds URLs, its filtered links; and when scan() returns every URL
\* sent has been printed.
C18_SinkLosesNothing ==
    /\ []((mode = "scan" /\ pc = "ok") => sent = <<>>)
    /\ [][mode = "scan" =>
            /\ IsPrefix(printed, printed')
            /\ Len(printed') <= Len(printed) + 1
            /\ IsPrefix(AllSent, AllSent')
            /\ AllSent' # AllSent =>
                  \E j \in JobIdx :
                      /\ jpc[j] = "text" /\ jpc'[j] = "ok"
                      /\ \E add \in MaySend(j) : AllSent' = AllSent \o add]_vars

\* C18 witness: scan() has returned after two jobs whose sends, three URLs
\* or more, have all been printed.
C18_Witness ==
    /\ mode = "scan" /\ pc = "ok" /\ Len(jobs) = 2
    /\ Len(printed) >= 3 /\ sent = <<>>

\* The phases of a download job before its remove_file and rename steps.
BeforeRename == {"new", "send", "create", "write"}

\* Job j takes a step.
JobSteps(j) == jpc'[j] # jpc[j] \/ off'[j] # off[j] \/ fd'[j] # fd[j]

C20_TempPathsAreOwn ==
    mode = "download" =>
        \A i, j \in 1..Len(jobs) :
            i # j => /\ TempName(jobs[i].file_name)
                          # TempName(jobs[j].file_name)
                     /\ TempName(jobs[i].file_name) # jobs[j].path

====
